---- MODULE Spec2Model ----
(***************************************************************************)
(* The provider/model settings registry (SettingsManager) of the YouTube   *)
(* video summarizer plugin, with the durable store it loads from and       *)
(* writes to.                                                              *)
(*                                                                         *)
(* JavaScript values are modelled as follows.  null and undefined are the  *)
(* strings Null and Undefined; the empty string is "".  An object that the *)
(* code can reach through two references (the provider objects of          *)
(* DEFAULT_PROVIDERS, which `[...DEFAULT_PROVIDERS]` copies by reference)  *)
(* is kept once, in `defaults`, and referred to by its index.              *)
(***************************************************************************)
EXTENDS Integers, Sequences, FiniteSets, TLC

Null == "<null>"
Undefined == "<undefined>"

\* Bound on the number of registry calls in one behaviour.
MaxOps == 2

\* Bound on the number of plugin.saveData calls in flight when a registry call starts.
MaxPending == 2

(***************************************************************************)
(* Sequence helpers (Array.prototype.find / findIndex / splice / flatMap). *)
(***************************************************************************)
Min(S) == CHOOSE x \in S : \A y \in S : x <= y

\* Array.prototype.splice(index, 1)
Splice(s, i) == [k \in 1..(Len(s) - 1) |-> IF k < i THEN s[k] ELSE s[k + 1]]

RECURSIVE Flatten(_)
Flatten(ss) == IF ss = <<>> THEN <<>> ELSE Head(ss) \o Flatten(Tail(ss))

\* JavaScript truthiness of a string-or-null value
Truthy(v) == v # "" /\ v # Null /\ v # Undefined

(***************************************************************************)
(* defaults.ts and the constants it imports.                               *)
(***************************************************************************)
GEMINI_MODELS == <<"gemini-1.5-pro", "gemini-1.5-flash">>

DEFAULT_PROMPT == "DEFAULT_PROMPT"

DEFAULT_PROVIDERS ==
    << [name |-> "Gemini", type |-> "gemini", apiKey |-> "", url |-> Undefined,
        verified |-> FALSE,
        models |-> [i \in 1..Len(GEMINI_MODELS) |->
                       [id |-> GEMINI_MODELS[i], name |-> GEMINI_MODELS[i]]]],
       [name |-> "OpenAI", type |-> "openai", apiKey |-> "", url |-> Undefined,
        verified |-> FALSE,
        models |-> << [id |-> "gpt-3.5-turbo", name |-> "GPT-3.5 Turbo"],
                      [id |-> "gpt-4", name |-> "GPT-4"],
                      [id |-> "gpt-4-turbo", name |-> "GPT-4 Turbo"] >>],
       [name |-> "Anthropic", type |-> "anthropic", apiKey |-> "", url |-> Undefined,
        verified |-> FALSE,
        models |-> << [id |-> "claude-3-opus", name |-> "Claude 3 Opus"],
                      [id |-> "claude-3-sonnet", name |-> "Claude 3 Sonnet"],
                      [id |-> "claude-3-haiku", name |-> "Claude 3 Haiku"] >>] >>

(***************************************************************************)
(* State.                                                                  *)
(*   defaults  the current contents of the provider objects held by the    *)
(*             module-level array DEFAULT_PROVIDERS                        *)
(*   settings  this.settings; an element of settings.providers is          *)
(*             [ref |-> i, obj |-> o]: with i > 0 it is the very object    *)
(*             DEFAULT_PROVIDERS[i], with i = 0 it is the object o, owned  *)
(*             by the registry alone                                       *)
(*   disk      the blob in the durable store                               *)
(*   pending   the blobs of the plugin.saveData calls still in flight, in  *)
(*             the order of the calls                                      *)
(*   phase     where loadSettings stands: "loading" while it awaits        *)
(*             plugin.loadData(), "ready" once it has returned             *)
(*   last      the last registry call: its name, argument, outcome, the    *)
(*             registry state and defaults it started from, and how many   *)
(*             plugin.saveData calls it made                               *)
(*   nops      the number of registry calls made                           *)
(***************************************************************************)
VARIABLES defaults, settings, disk, pending, phase, last, nops

vars == <<defaults, settings, disk, pending, phase, last, nops>>

NoObj == [name |-> Undefined, type |-> Undefined, apiKey |-> Undefined,
          url |-> Undefined, verified |-> FALSE, models |-> <<>>]

Shared(i) == [ref |-> i, obj |-> NoObj]
Owned(o) == [ref |-> 0, obj |-> o]

\* The object an element of a providers array refers to, given the defaults.
DerefIn(d, e) == IF e.ref = 0 THEN e.obj ELSE d[e.ref]

\* The providers array by value.
ProvidersIn(d, s) == [i \in 1..Len(s.providers) |-> DerefIn(d, s.providers[i])]
Providers == ProvidersIn(defaults, settings)

\* The registry state by value: what the getters can observe.
StateIn(d, s) ==
    [providers |-> ProvidersIn(d, s),
     selectedModelId |-> s.selectedModelId,
     customPrompt |-> s.customPrompt,
     maxTokens |-> s.maxTokens,
     temperature |-> s.temperature]
State == StateIn(defaults, settings)

(***************************************************************************)
(* Blobs of the durable store.  `fields` is the set of the properties the  *)
(* blob's settings object has; a property outside it reads as undefined.   *)
(* A number that JSON cannot write (NaN) is written as null: NullNum.      *)
(***************************************************************************)
NaN == -1
NullNum == -2

\* v is null or undefined (v ?? x is x), for a string and for a number
Nullish(v) == v = Null \/ v = Undefined
NullishNum(v) == v = NullNum

NoBlob ==
    [exists |-> FALSE, hasSettings |-> FALSE, fields |-> {},
     providers |-> <<>>, selectedModelId |-> Undefined, selectedModel |-> Undefined,
     geminiApiKey |-> Undefined, customPrompt |-> Undefined,
     maxTokens |-> NullNum, temperature |-> NullNum]

\* JSON.stringify drops a property whose value is undefined and writes NaN as null.
Serialize(d, s) ==
    [exists |-> TRUE, hasSettings |-> TRUE,
     fields |-> {"providers", "customPrompt", "maxTokens", "temperature"}
                \cup (IF s.selectedModelId = Undefined THEN {} ELSE {"selectedModelId"}),
     providers |-> ProvidersIn(d, s),
     selectedModelId |-> s.selectedModelId,
     selectedModel |-> Undefined,
     geminiApiKey |-> Undefined,
     customPrompt |-> s.customPrompt,
     maxTokens |-> IF s.maxTokens = NaN THEN NullNum ELSE s.maxTokens,
     temperature |-> IF s.temperature = NaN THEN NullNum ELSE s.temperature]

\* A blob of the older single-key format.
LegacyBlob ==
    [NoBlob EXCEPT !.exists = TRUE, !.hasSettings = TRUE,
        !.fields = {"geminiApiKey", "selectedModel", "customPrompt", "maxTokens",
                    "temperature"},
        !.geminiApiKey = "X", !.selectedModel = "m1", !.customPrompt = "p",
        !.maxTokens = 10, !.temperature = 0]

\* A blob an earlier run of the plugin wrote: the user had added the provider
\* Custom with one model, and selected that model.
CurrentBlob ==
    [NoBlob EXCEPT !.exists = TRUE, !.hasSettings = TRUE,
        !.fields = {"providers", "selectedModelId", "customPrompt", "maxTokens",
                    "temperature"},
        !.providers = << DEFAULT_PROVIDERS[1],
                         [name |-> "Custom", type |-> "openai", apiKey |-> "k0",
                          url |-> "u0", verified |-> TRUE,
                          models |-> << [id |-> "m1", name |-> "M1"] >>] >>,
        !.selectedModelId = "m1", !.customPrompt = "p",
        !.maxTokens = 10, !.temperature = 0]

InitialBlobs == {NoBlob, LegacyBlob, CurrentBlob}

\* A current-format blob whose five fields are present and empty: the blob
\* written after every provider was removed, the selected model deleted and
\* the prompt and the numbers cleared.
EmptyBlob ==
    [NoBlob EXCEPT !.exists = TRUE, !.hasSettings = TRUE,
        !.fields = {"providers", "selectedModelId", "customPrompt", "maxTokens",
                    "temperature"},
        !.providers = <<>>, !.selectedModelId = Null, !.customPrompt = "",
        !.maxTokens = 0, !.temperature = 0]

\* A current-format blob with one field only.
PartialBlob ==
    [NoBlob EXCEPT !.exists = TRUE, !.hasSettings = TRUE,
        !.fields = {"customPrompt"}, !.customPrompt = "p"]

StoredBlobs == {EmptyBlob, PartialBlob, CurrentBlob}

\* A stored object that has no settings property.
NoSettingsBlob == [NoBlob EXCEPT !.exists = TRUE]

AbsentBlobs == {NoBlob, NoSettingsBlob}

(***************************************************************************)
(* Getters and private helpers of SettingsManager.                         *)
(***************************************************************************)
convertToModelConfigNoKey(model, provider) ==
    [name |-> model.id,
     displayName |-> model.name,
     provider |-> [name |-> provider.name, type |-> provider.type,
                   apiKey |-> "", url |-> provider.url,
                   verified |-> provider.verified]]

convertToModelConfig(model, provider) ==
    [name |-> model.id,
     displayName |-> model.name,
     provider |-> [name |-> provider.name, type |-> provider.type,
                   apiKey |-> provider.apiKey, url |-> provider.url,
                   verified |-> provider.verified]]

ConvertModels(provider) ==
    [j \in 1..Len(provider.models) |-> convertToModelConfig(provider.models[j], provider)]

getProviders ==
    [i \in 1..Len(Providers) |->
        [name |-> Providers[i].name, type |-> Providers[i].type,
         apiKey |-> Providers[i].apiKey, url |-> Providers[i].url,
         verified |-> Providers[i].verified,
         models |-> ConvertModels(Providers[i])]]

getModels == Flatten([i \in 1..Len(Providers) |-> ConvertModels(Providers[i])])

\* this.settings.providers.find(p => p.name === name), as an index; 0 when absent
FindIn(providers, name) ==
    LET hits == {i \in 1..Len(providers) : providers[i].name = name}
    IN  IF hits = {} THEN 0 ELSE Min(hits)

FindProvider(name) == FindIn(Providers, name)

\* provider.models.findIndex(m => m.id === id), 1-based; 0 when absent
FindModel(provider, id) ==
    LET hits == {j \in 1..Len(provider.models) : provider.models[j].id = id}
    IN  IF hits = {} THEN 0 ELSE Min(hits)

\* `self` is the identity of the object passed in: its index in
\* settings.providers, or 0 for an object that is not in the array.
validateProviderNoUnique(provider, self) ==
    Truthy(provider.name) /\ Truthy(provider.type)

validateProvider(provider, self) ==
    IF ~Truthy(provider.name) \/ ~Truthy(provider.type) THEN FALSE
    ELSE LET existingProvider == FindProvider(provider.name)
         IN  ~(existingProvider # 0 /\ existingProvider # self)

\* `self` is the identity of the model object passed in: its index in
\* provider.models, or 0 for an object that is not in that array.
validateModelNoUnique(model, provider, self) ==
    Truthy(model.id) /\ Truthy(model.name)

validateModel(model, provider, self) ==
    IF ~Truthy(model.id) \/ ~Truthy(model.name) THEN FALSE
    ELSE LET existingModel == FindModel(provider, model.id)
         IN  ~(existingModel # 0 /\ existingModel # self)

findModelAndProviderLast(modelId) ==
    IF ~Truthy(modelId) THEN <<0, 0>>
    ELSE LET hits == {i \in 1..Len(Providers) : FindModel(Providers[i], modelId) # 0}
         IN  IF hits = {} THEN <<0, 0>>
             ELSE LET i == CHOOSE x \in hits : \A y \in hits : x >= y
                  IN  <<i, FindModel(Providers[i], modelId)>>

\* The provider and model a model id resolves to: <<i, j>>, or <<0, 0>>.
findModelAndProvider(modelId) ==
    IF ~Truthy(modelId) THEN <<0, 0>>
    ELSE LET hits == {i \in 1..Len(Providers) : FindModel(Providers[i], modelId) # 0}
         IN  IF hits = {} THEN <<0, 0>>
             ELSE <<Min(hits), FindModel(Providers[Min(hits)], modelId)>>

getSelectedModel ==
    IF ~Truthy(settings.selectedModelId) THEN Null
    ELSE LET found == findModelAndProvider(settings.selectedModelId)
         IN  IF found[1] = 0 THEN Null
             ELSE convertToModelConfig(Providers[found[1]].models[found[2]],
                                       Providers[found[1]])

saveDataKeepLegacyKey(d, s) ==
    [Serialize(d, s) EXCEPT !.fields = @ \cup {"geminiApiKey"}, !.geminiApiKey = ""]

\* The blob one plugin.saveData({settings: this.settings}) call hands to the store.
saveData(d, s) == Serialize(d, s)

\* Assigning object o to the object settings.providers[i] refers to.
WithObj(d, s, i, o) ==
    IF s.providers[i].ref = 0
    THEN [d |-> d, s |-> [s EXCEPT !.providers[i].obj = o]]
    ELSE [d |-> [d EXCEPT ![s.providers[i].ref] = o], s |-> s]

(***************************************************************************)
(* Arguments the callers pass.                                             *)
(***************************************************************************)
BaseModel(name, displayName, providerName) ==
    [name |-> name, displayName |-> displayName, provider |-> [name |-> providerName]]

\* A ModelConfig whose provider property is undefined.
NoProvider == [name |-> Undefined]

ModelInputs ==
    {BaseModel(n, "Label", pn) : n \in {"gemini-1.5-pro", "m1"}, pn \in {"Gemini", "Custom"}}
    \cup {BaseModel("m1", Undefined, "Gemini"),
          BaseModel("", "Label", "Gemini"),
          BaseModel("m1", Undefined, "Nope"),
          [name |-> "m1", displayName |-> "Label", provider |-> NoProvider]}

BaseProvider(name, type, apiKey, url, verified, models) ==
    [name |-> name, type |-> type, apiKey |-> apiKey, url |-> url,
     verified |-> verified, models |-> models]

ProviderInputs ==
    {BaseProvider("Custom", "openai", "k1", "u1", FALSE, <<>>),
     BaseProvider("Custom", "openai", "k2", Undefined, TRUE,
                  << BaseModel("m1", "Label", "Custom") >>),
     BaseProvider("", "openai", "k1", Undefined, FALSE, <<>>),
     BaseProvider("Custom", "", "k1", Undefined, FALSE, <<>>),
     BaseProvider("Gemini", "gemini", "k1", Undefined, TRUE, <<>>)}

\* deleteProvider reads the name alone
DeleteInputs ==
    {BaseProvider(n, "openai", "", Undefined, FALSE, <<>>) : n \in {"Gemini", "Custom", "Nope"}}

ProviderNames == {"Gemini", "Custom", "Nope"}
Keys == {"k1"}
ModelNames == {"m1", ""}
Prompts == {"q"}
TokenInputs == {20, NaN}
TemperatureInputs == {2}

(***************************************************************************)
(* How a registry call ends.                                               *)
(***************************************************************************)
CanCall == nops < MaxOps /\ Len(pending) < MaxPending

ThrowSaved(op, arg, msg) ==
    /\ last' = [op |-> op, arg |-> arg, result |-> msg, pre |-> State, writes |-> 1,
                post |-> State, blob |-> Serialize(defaults, settings),
                callbacks |-> <<>>]
    /\ pending' = Append(pending, Serialize(defaults, settings))
    /\ nops' = nops + 1
    /\ UNCHANGED <<defaults, settings, disk, phase>>

\* The call throws Error(msg) before it changed anything.
Throw(op, arg, msg) ==
    /\ last' = [op |-> op, arg |-> arg, result |-> msg, pre |-> State, writes |-> 0,
                post |-> State, blob |-> NoBlob, callbacks |-> <<>>]
    /\ nops' = nops + 1
    /\ UNCHANGED <<defaults, settings, disk, pending, phase>>

\* The call leaves defaults d and settings s behind, calls this.saveData()
\* (not awaited) and returns.
Return(op, arg, d, s) ==
    /\ defaults' = d
    /\ settings' = s
    /\ LET written == saveData(d, s)
       IN  /\ pending' = Append(pending, written)
           /\ last' = [op |-> op, arg |-> arg, result |-> "ok", pre |-> State,
                       writes |-> 1, post |-> StateIn(d, s), blob |-> written,
                       callbacks |-> <<>>]
    /\ nops' = nops + 1
    /\ UNCHANGED <<disk, phase>>

(***************************************************************************)
(* The mutators.                                                           *)
(***************************************************************************)
addProviderKeepModels(provider) ==
    /\ CanCall
    /\ IF ~validateProvider([provider EXCEPT !.models = <<>>], 0)
       THEN Throw("addProvider", provider, "Invalid provider configuration")
       ELSE Return("addProvider", provider, defaults,
                   [settings EXCEPT !.providers =
                       Append(@, Owned([provider EXCEPT
                           !.models = [j \in 1..Len(provider.models) |->
                               [id |-> provider.models[j].name,
                                name |-> provider.models[j].displayName]]]))])

addProvider(provider) ==
    /\ CanCall
    /\ LET storedProvider == [provider EXCEPT !.models = <<>>]
       IN  IF ~validateProvider(storedProvider, 0)
           THEN Throw("addProvider", provider, "Invalid provider configuration")
           ELSE Return("addProvider", provider, defaults,
                       [settings EXCEPT !.providers = Append(@, Owned(storedProvider))])

addModel(model) ==
    /\ CanCall
    /\ IF model.provider = NoProvider
       THEN Throw("addModel", model, "TypeError")
       ELSE
       LET p == FindProvider(model.provider.name)
           provider == Providers[p]
           storedModel == [id |-> model.name,
                           name |-> IF Truthy(model.displayName)
                                    THEN model.displayName ELSE model.name]
       IN  IF p = 0 THEN Throw("addModel", model, "Provider not found")
           ELSE IF ~validateModel(storedModel, provider, 0)
           THEN Throw("addModel", model, "Invalid model configuration")
           ELSE LET w == WithObj(defaults, settings, p,
                                 [provider EXCEPT !.models = Append(@, storedModel)])
                IN  Return("addModel", model, w.d, w.s)

updateProvider(provider) ==
    /\ CanCall
    /\ LET p == FindProvider(provider.name)
           storedProvider == Providers[p]
           updatedProvider == [provider EXCEPT !.models = storedProvider.models]
       IN  IF p = 0 THEN Throw("updateProvider", provider, "Provider not found")
           ELSE IF ~validateProvider(updatedProvider, 0)
           THEN Throw("updateProvider", provider, "Invalid provider configuration")
           ELSE Return("updateProvider", provider, defaults,
                       [settings EXCEPT !.providers[p] = Owned(updatedProvider)])

updateModelUpsert(model) ==
    /\ CanCall
    /\ IF model.provider = NoProvider
       THEN Throw("updateModel", model, "TypeError")
       ELSE
       LET p == FindProvider(model.provider.name)
           storedModel == [id |-> model.name,
                           name |-> IF Truthy(model.displayName)
                                    THEN model.displayName ELSE model.name]
       IN  IF p = 0 THEN Throw("updateModel", model, "Provider not found")
           ELSE IF FindModel(Providers[p], model.name) = 0
           THEN LET w == WithObj(defaults,
                                 [settings EXCEPT !.selectedModelId = model.name], p,
                                 [Providers[p] EXCEPT !.models = Append(@, storedModel)])
                IN  Return("updateModel", model, w.d, w.s)
           ELSE Throw("updateModel", model, "Invalid model configuration")

updateModel(model) ==
    /\ CanCall
    /\ IF model.provider = NoProvider
       THEN Throw("updateModel", model, "TypeError")
       ELSE
       LET p == FindProvider(model.provider.name)
           provider == Providers[p]
           index == FindModel(provider, model.name)
           storedModel == [id |-> model.name,
                           name |-> IF Truthy(model.displayName)
                                    THEN model.displayName ELSE model.name]
       IN  IF p = 0 THEN Throw("updateModel", model, "Provider not found")
           ELSE IF index = 0
           THEN Return("updateModel", model, defaults,
                       [settings EXCEPT !.selectedModelId = model.name])
           ELSE IF ~validateModel(storedModel, provider, 0)
           THEN Throw("updateModel", model, "Invalid model configuration")
           ELSE LET w == WithObj(defaults, settings, p,
                                 [provider EXCEPT !.models[index] = storedModel])
                IN  Return("updateModel", model, w.d, w.s)

deleteProviderShift(provider) ==
    /\ CanCall
    /\ LET p == FindProvider(provider.name)
       IN  IF p = 0 THEN Throw("deleteProvider", provider, "Provider not found")
           ELSE IF Len(Providers[p].models) > 0
           THEN Throw("deleteProvider", provider,
                      "Cannot delete provider with associated models")
           ELSE Return("deleteProvider", provider, defaults,
                       [settings EXCEPT !.providers = Splice(@, 1)])

deleteProviderAnyway(provider) ==
    /\ CanCall
    /\ LET p == FindProvider(provider.name)
       IN  IF p = 0 THEN Throw("deleteProvider", provider, "Provider not found")
           ELSE Return("deleteProvider", provider, defaults,
                       [settings EXCEPT !.providers = Splice(@, p)])

deleteProvider(provider) ==
    /\ CanCall
    /\ LET p == FindProvider(provider.name)
           storedProvider == Providers[p]
       IN  IF p = 0 THEN Throw("deleteProvider", provider, "Provider not found")
           ELSE IF Len(storedProvider.models) > 0
           THEN Throw("deleteProvider", provider,
                      "Cannot delete provider with associated models")
           ELSE Return("deleteProvider", provider, defaults,
                       [settings EXCEPT !.providers = Splice(@, p)])

deleteModelTail(model) ==
    /\ CanCall
    /\ IF model.provider = NoProvider
       THEN Throw("deleteModel", model, "Provider is undefined in model")
       ELSE
       LET p == FindProvider(model.provider.name)
           index == FindModel(Providers[p], model.name)
       IN  IF p = 0
           THEN Throw("deleteModel", model, "Provider not found: " \o model.provider.name)
           ELSE IF index = 0
           THEN Throw("deleteModel", model, "Model not found: " \o model.name)
           ELSE LET sel == IF settings.selectedModelId = model.name
                           THEN Null ELSE settings.selectedModelId
                    w == WithObj(defaults, [settings EXCEPT !.selectedModelId = sel], p,
                                 [Providers[p] EXCEPT !.models = SubSeq(@, 1, index - 1)])
                IN  Return("deleteModel", model, w.d, w.s)

deleteModelKeepSelection(model) ==
    /\ CanCall
    /\ IF model.provider = NoProvider
       THEN Throw("deleteModel", model, "Provider is undefined in model")
       ELSE
       LET p == FindProvider(model.provider.name)
           index == FindModel(Providers[p], model.name)
       IN  IF p = 0
           THEN Throw("deleteModel", model, "Provider not found: " \o model.provider.name)
           ELSE IF index = 0
           THEN Throw("deleteModel", model, "Model not found: " \o model.name)
           ELSE LET w == WithObj(defaults, settings, p,
                                 [Providers[p] EXCEPT !.models = Splice(@, index)])
                IN  Return("deleteModel", model, w.d, w.s)

deleteModel(model) ==
    /\ CanCall
    /\ IF model.provider = NoProvider
       THEN Throw("deleteModel", model, "Provider is undefined in model")
       ELSE
       LET providerName == model.provider.name
           p == FindProvider(providerName)
           provider == Providers[p]
           modelName == model.name
           index == FindModel(provider, modelName)
       IN  IF p = 0 THEN Throw("deleteModel", model, "Provider not found: " \o providerName)
           ELSE IF index = 0
           THEN Throw("deleteModel", model, "Model not found: " \o modelName)
           ELSE LET sel == IF settings.selectedModelId = modelName
                           THEN Null ELSE settings.selectedModelId
                    w == WithObj(defaults, [settings EXCEPT !.selectedModelId = sel], p,
                                 [provider EXCEPT !.models = Splice(@, index)])
                IN  Return("deleteModel", model, w.d, w.s)

updateCustomPrompt(prompt) ==
    /\ CanCall
    /\ Return("updateCustomPrompt", prompt, defaults,
              [settings EXCEPT !.customPrompt = prompt])

updateMaxTokens(tokens) ==
    /\ CanCall
    /\ Return("updateMaxTokens", tokens, defaults, [settings EXCEPT !.maxTokens = tokens])

updateTemperature(temperature) ==
    /\ CanCall
    /\ Return("updateTemperature", temperature, defaults,
              [settings EXCEPT !.temperature = temperature])

saveProviderKeyKeepVerified(providerName, key) ==
    /\ CanCall
    /\ LET p == FindProvider(providerName)
           arg == [providerName |-> providerName, key |-> key]
       IN  IF p = 0 THEN Throw("saveProviderKey", arg, "Provider not found")
           ELSE LET w == WithObj(defaults, settings, p, [Providers[p] EXCEPT !.apiKey = key])
                IN  Return("saveProviderKey", arg, w.d, w.s)

saveProviderKey(providerName, key) ==
    /\ CanCall
    /\ LET p == FindProvider(providerName)
           arg == [providerName |-> providerName, key |-> key]
       IN  IF p = 0 THEN Throw("saveProviderKey", arg, "Provider not found")
           ELSE LET w == WithObj(defaults, settings, p,
                                 [Providers[p] EXCEPT !.apiKey = key, !.verified = FALSE])
                IN  Return("saveProviderKey", arg, w.d, w.s)

setSelectedModelChecked(modelName) ==
    /\ CanCall
    /\ IF findModelAndProvider(modelName)[1] = 0
       THEN Throw("setSelectedModel", modelName, "Model not found: " \o modelName)
       ELSE Return("setSelectedModel", modelName, defaults,
                   [settings EXCEPT !.selectedModelId = modelName])

setSelectedModel(modelName) ==
    /\ CanCall
    /\ Return("setSelectedModel", modelName, defaults,
              [settings EXCEPT !.selectedModelId = modelName])

(***************************************************************************)
(* loadSettings: the part that runs once plugin.loadData() has resolved.   *)
(***************************************************************************)
\* loaded.settings.<f> ?? current
Merge(loaded, f, current) ==
    IF f \in loaded.fields /\ ~Nullish(loaded[f]) THEN loaded[f] ELSE current
MergeNum(loaded, f, current) ==
    IF f \in loaded.fields /\ ~NullishNum(loaded[f]) THEN loaded[f] ELSE current

\* The property f of a legacy settings object.
OldField(loaded, f, absent) == IF f \in loaded.fields THEN loaded[f] ELSE absent

MigratedNoKey(d, loaded) ==
    [d |-> d,
     s |-> [providers |-> [i \in 1..Len(DEFAULT_PROVIDERS) |-> Shared(i)],
            selectedModelId |-> OldField(loaded, "selectedModel", Undefined),
            customPrompt |-> OldField(loaded, "customPrompt", Undefined),
            maxTokens |-> OldField(loaded, "maxTokens", NullNum),
            temperature |-> OldField(loaded, "temperature", NullNum)],
     writes |-> 1]

\* The legacy branch: the defaults and settings it leaves, and its one write.
Migrated(d, loaded) ==
    LET providers == [i \in 1..Len(DEFAULT_PROVIDERS) |-> Shared(i)]
        hits == {i \in 1..Len(providers) : d[i].name = "Gemini"}
        d2 == IF hits = {} THEN d
              ELSE [d EXCEPT
                       ![Min(hits)].apiKey = OldField(loaded, "geminiApiKey", Undefined),
                       ![Min(hits)].verified = FALSE]
    IN  [d |-> d2,
         s |-> [providers |-> providers,
                selectedModelId |-> OldField(loaded, "selectedModel", Undefined),
                customPrompt |-> OldField(loaded, "customPrompt", Undefined),
                maxTokens |-> OldField(loaded, "maxTokens", NullNum),
                temperature |-> OldField(loaded, "temperature", NullNum)],
         writes |-> 1]

\* The current-format branch: each field merged against this.settings.
Merged(d, s, loaded) ==
    [d |-> d,
     s |-> [providers |->
                IF "providers" \in loaded.fields
                THEN [i \in 1..Len(loaded.providers) |-> Owned(loaded.providers[i])]
                ELSE s.providers,
            selectedModelId |-> Merge(loaded, "selectedModelId", s.selectedModelId),
            customPrompt |-> Merge(loaded, "customPrompt", s.customPrompt),
            maxTokens |-> MergeNum(loaded, "maxTokens", s.maxTokens),
            temperature |-> MergeNum(loaded, "temperature", s.temperature)],
     writes |-> 0]

LoadedWritesDefaults(d, s, loaded) ==
    IF ~loaded.exists \/ ~loaded.hasSettings THEN [d |-> d, s |-> s, writes |-> 1]
    ELSE IF "geminiApiKey" \in loaded.fields THEN Migrated(d, loaded)
    ELSE Merged(d, s, loaded)

\* What loadSettings makes of the blob `loaded`, run on defaults d and settings s.
Loaded(d, s, loaded) ==
    IF ~loaded.exists \/ ~loaded.hasSettings THEN [d |-> d, s |-> s, writes |-> 0]
    ELSE IF "geminiApiKey" \in loaded.fields THEN Migrated(d, loaded)
    ELSE Merged(d, s, loaded)

loadSettings ==
    /\ phase = "loading"
    /\ phase' = "ready"
    /\ nops' = nops
    /\ disk' = disk
    /\ LET loaded == disk
           r == Loaded(defaults, settings, loaded)
       IN  /\ defaults' = r.d
           /\ settings' = r.s
           /\ pending' = IF r.writes = 1 THEN Append(pending, saveData(r.d, r.s))
                         ELSE pending
           /\ last' = [op |-> "loadSettings", arg |-> loaded, result |-> "ok",
                       pre |-> State, writes |-> r.writes,
                       post |-> StateIn(r.d, r.s),
                       blob |-> IF r.writes = 1 THEN saveData(r.d, r.s) ELSE NoBlob,
                       callbacks |-> <<>>]

\* this.settings as the constructor sets it
NewSettings ==
    [providers |-> [i \in 1..Len(DEFAULT_PROVIDERS) |-> Shared(i)],
     selectedModelId |-> "gemini-1.5-pro",
     customPrompt |-> DEFAULT_PROMPT,
     maxTokens |-> 3000,
     temperature |-> 1]

(***************************************************************************)
(* The durable store: a plugin.saveData call in flight resolves, replacing *)
(* the stored blob, or rejects, which saveData's catch turns into a        *)
(* Notice.  The store may finish the calls in any order.                   *)
(***************************************************************************)
WriteDone ==
    \E i \in 1..Len(pending) :
        /\ disk' = pending[i]
        /\ pending' = Splice(pending, i)
        /\ UNCHANGED <<defaults, settings, phase, last, nops>>

WriteFailRollback ==
    \E i \in 1..Len(pending) :
        /\ pending' = Splice(pending, i)
        /\ defaults' = DEFAULT_PROVIDERS
        /\ settings' = NewSettings
        /\ last' = [last EXCEPT !.result = "Failed to save settings"]
        /\ UNCHANGED <<disk, phase, nops>>

WriteFail ==
    \E i \in 1..Len(pending) :
        /\ pending' = Splice(pending, i)
        /\ UNCHANGED <<defaults, settings, disk, phase, last, nops>>

(***************************************************************************)
(* The registry after `new SettingsManager(plugin)`: the constructor has   *)
(* set the defaults and loadSettings() is waiting for the blob.            *)
(***************************************************************************)
Init ==
    /\ defaults = DEFAULT_PROVIDERS
    /\ settings = NewSettings
    /\ disk \in InitialBlobs
    /\ pending = <<>>
    /\ phase = "loading"
    /\ last = [op |-> "constructor", arg |-> Null, result |-> "ok",
               pre |-> StateIn(defaults, settings), writes |-> 0,
               post |-> StateIn(defaults, settings), blob |-> NoBlob,
               callbacks |-> <<>>]
    /\ nops = 0

AddProvider == \E provider \in ProviderInputs : addProvider(provider)
AddModel == \E model \in ModelInputs : addModel(model)
UpdateProvider == \E provider \in ProviderInputs : updateProvider(provider)
UpdateModel == \E model \in ModelInputs : updateModel(model)
DeleteProvider == \E provider \in DeleteInputs : deleteProvider(provider)
DeleteModel == \E model \in ModelInputs : deleteModel(model)
UpdateCustomPrompt == \E prompt \in Prompts : updateCustomPrompt(prompt)
UpdateMaxTokens == \E tokens \in TokenInputs : updateMaxTokens(tokens)
UpdateTemperature == \E temperature \in TemperatureInputs : updateTemperature(temperature)
SaveProviderKey == \E providerName \in ProviderNames, key \in Keys : saveProviderKey(providerName, key)
SetSelectedModel == \E modelName \in ModelNames : setSelectedModel(modelName)

Next ==
    \/ loadSettings
    \/ WriteDone
    \/ WriteFail
    \/ AddProvider
    \/ AddModel
    \/ UpdateProvider
    \/ UpdateModel
    \/ DeleteProvider
    \/ DeleteModel
    \/ UpdateCustomPrompt
    \/ UpdateMaxTokens
    \/ UpdateTemperature
    \/ SaveProviderKey
    \/ SetSelectedModel

Spec == Init /\ [][Next]_vars

\* The same registry, constructed over a store that holds a current-format blob.
InitStored ==
    /\ defaults = DEFAULT_PROVIDERS
    /\ settings = NewSettings
    /\ disk \in StoredBlobs
    /\ pending = <<>>
    /\ phase = "loading"
    /\ last = [op |-> "constructor", arg |-> Null, result |-> "ok",
               pre |-> StateIn(defaults, settings), writes |-> 0,
               post |-> StateIn(defaults, settings), blob |-> NoBlob,
               callbacks |-> <<>>]
    /\ nops = 0

SpecStored == InitStored /\ [][Next]_vars

\* The same registry, constructed over a store that holds no settings.
InitAbsent ==
    /\ defaults = DEFAULT_PROVIDERS
    /\ settings = NewSettings
    /\ disk \in AbsentBlobs
    /\ pending = <<>>
    /\ phase = "loading"
    /\ last = [op |-> "constructor", arg |-> Null, result |-> "ok",
               pre |-> StateIn(defaults, settings), writes |-> 0,
               post |-> StateIn(defaults, settings), blob |-> NoBlob,
               callbacks |-> <<>>]
    /\ nops = 0

SpecAbsent == InitAbsent /\ [][Next]_vars

\* The registry over a store in which no write fails: every
\* plugin.saveData call resolves, in any order.
NextNoFail ==
    \/ loadSettings
    \/ WriteDone
    \/ AddProvider
    \/ AddModel
    \/ UpdateProvider
    \/ UpdateModel
    \/ DeleteProvider
    \/ DeleteModel
    \/ UpdateCustomPrompt
    \/ UpdateMaxTokens
    \/ UpdateTemperature
    \/ SaveProviderKey
    \/ SetSelectedModel

SpecNoFail == Init /\ [][NextNoFail]_vars

(***************************************************************************)
(* The Presentation Layer's handler for deleting a model (types.ts).  It   *)
(* calls the registry through the PluginSettings interface, whose          *)
(* deleteModel takes (providerName, modelName), while the registry's       *)
(* deleteModel takes one ModelConfig: the registry reads its first         *)
(* argument, a string, as the model.                                       *)
(***************************************************************************)
\* A string primitive read as a ModelConfig: it has no name, displayName or
\* provider property.
StringAsModel(str) ==
    [name |-> Undefined, displayName |-> Undefined, provider |-> NoProvider]

\* What deleteModel(model) does to defaults d and settings s: the error it
\* throws, or "ok" and what it leaves.
deleteModelOn(d, s, model) ==
    IF model.provider = NoProvider
    THEN [error |-> "Provider is undefined in model", d |-> d, s |-> s]
    ELSE
    LET providers == ProvidersIn(d, s)
        p == FindIn(providers, model.provider.name)
        index == FindModel(providers[p], model.name)
    IN  IF p = 0
        THEN [error |-> "Provider not found: " \o model.provider.name, d |-> d, s |-> s]
        ELSE IF index = 0
        THEN [error |-> "Model not found: " \o model.name, d |-> d, s |-> s]
        ELSE LET sel == IF s.selectedModelId = model.name
                        THEN Null ELSE s.selectedModelId
                 w == WithObj(d, [s EXCEPT !.selectedModelId = sel], p,
                              [providers[p] EXCEPT !.models = Splice(@, index)])
             IN  [error |-> "ok", d |-> w.d, s |-> w.s]

HandlerInputs ==
    {BaseModel("gemini-1.5-pro", "Label", "Gemini"), BaseModel("m1", "Label", "Custom")}

handleModelDelete(model) ==
    /\ CanCall
    /\ LET r == deleteModelOn(defaults, settings, StringAsModel(model.provider.name))
       IN  IF r.error = "ok"
           THEN /\ defaults' = r.d
                /\ settings' = r.s
                /\ pending' = Append(pending, saveData(r.d, r.s))
                /\ last' = [op |-> "handleModelDelete", arg |-> model, result |-> "ok",
                            pre |-> State, writes |-> 1, post |-> StateIn(r.d, r.s),
                            blob |-> saveData(r.d, r.s),
                            callbacks |-> << "onModelDeleted" >>]
                /\ nops' = nops + 1
                /\ UNCHANGED <<disk, phase>>
           ELSE /\ last' = [op |-> "handleModelDelete", arg |-> model,
                            result |-> r.error, pre |-> State, writes |-> 0,
                            post |-> State, blob |-> NoBlob, callbacks |-> <<>>]
                /\ nops' = nops + 1
                /\ UNCHANGED <<defaults, settings, disk, pending, phase>>

HandleModelDelete == \E model \in HandlerInputs : handleModelDelete(model)

NextUI ==
    \/ Next
    \/ HandleModelDelete

SpecUI == Init /\ [][NextUI]_vars

(***************************************************************************)
(* Properties of the registry calls.  `last` holds the call just made and  *)
(* `last.pre` the registry state it started from, so each property is a    *)
(* predicate of the state the call leaves behind.                          *)
(***************************************************************************)
Mutators ==
    {"addProvider", "addModel", "updateProvider", "updateModel", "deleteProvider",
     "deleteModel", "updateCustomPrompt", "updateMaxTokens", "updateTemperature",
     "saveProviderKey", "setSelectedModel"}

\* The error kinds of the specification, by the messages the code throws.
ValidationError == {"Invalid provider configuration", "Invalid model configuration"}
ConflictError == {"Cannot delete provider with associated models"}
NotFoundError ==
    {"Provider not found"}
    \cup {"Provider not found: " \o n : n \in ProviderNames}
    \cup {"Model not found: " \o n : n \in {m.name : m \in ModelInputs}}

\* The ids of the models a stored provider owns.
ModelIds(provider) == {provider.models[j].id : j \in 1..Len(provider.models)}

\* The stored model addModel and updateModel build from their argument.
StoredModelOf(model) ==
    [id |-> model.name,
     name |-> IF Truthy(model.displayName) THEN model.displayName ELSE model.name]

\* The entries of getProviders() with the given name.
Named(name) == {i \in 1..Len(getProviders) : getProviders[i].name = name}

\* C1: when addProvider succeeds for a config named P, getProviders() has
\* exactly one entry named P, and that entry's model list is empty whatever
\* models the config carried.
C1_AddProviderOneEmptyEntry ==
    (last.op = "addProvider" /\ last.result = "ok") =>
        /\ Truthy(last.arg.name) /\ Truthy(last.arg.type)
        /\ Cardinality(Named(last.arg.name)) = 1
        /\ \A i \in Named(last.arg.name) : getProviders[i].models = <<>>

C1_Witness ==
    /\ last.op = "addProvider" /\ last.result = "ok"
    /\ last.arg.models # <<>>
    /\ Named(last.arg.name) # {}

\* C2: addProvider with the name of an existing provider fails with the
\* validation error, makes no write and leaves the registry state (providers,
\* models, selection, generation profile) as it was.
C2_AddProviderDuplicateRejected ==
    (last.op = "addProvider" /\ FindIn(last.pre.providers, last.arg.name) # 0) =>
        /\ last.result \in ValidationError
        /\ last.writes = 0
        /\ State = last.pre

C2_Witness ==
    /\ last.op = "addProvider"
    /\ Truthy(last.arg.name) /\ Truthy(last.arg.type)
    /\ FindIn(last.pre.providers, last.arg.name) # 0
    /\ last.result \in ValidationError

\* C3: deleteProvider on a provider that owns a model fails with the conflict
\* error and leaves the registry state as it was; and no registry call removes
\* a provider that owned a model when the call started.
C3_ProviderWithModelsNotDeleted ==
    /\ (/\ last.op = "deleteProvider"
        /\ FindIn(last.pre.providers, last.arg.name) # 0
        /\ last.pre.providers[FindIn(last.pre.providers, last.arg.name)].models # <<>>)
       => (last.result \in ConflictError /\ last.writes = 0 /\ State = last.pre)
    /\ last.op \in Mutators =>
          \A i \in 1..Len(last.pre.providers) :
              last.pre.providers[i].models # <<>> =>
                  FindIn(State.providers, last.pre.providers[i].name) # 0

C3_Witness ==
    /\ last.op = "deleteProvider"
    /\ last.result \in ConflictError
    /\ FindIn(State.providers, last.arg.name) # 0
    /\ State.providers[FindIn(State.providers, last.arg.name)].models # <<>>

\* C4: addModel with a name that provider P already has fails with the
\* validation error and leaves P's model list as it was; addModel with a name
\* that P lacks and another provider has succeeds and appends the model to P's
\* list.
C4_ModelNameUniquePerProvider ==
    (/\ last.op = "addModel"
     /\ last.arg.provider # NoProvider
     /\ FindIn(last.pre.providers, last.arg.provider.name) # 0) =>
        LET p == FindIn(last.pre.providers, last.arg.provider.name)
            others == UNION {ModelIds(last.pre.providers[q]) :
                                q \in (1..Len(last.pre.providers)) \ {p}}
        IN  /\ last.arg.name \in ModelIds(last.pre.providers[p]) =>
                /\ last.result \in ValidationError
                /\ State.providers[p].models = last.pre.providers[p].models
            /\ (last.arg.name \notin ModelIds(last.pre.providers[p])
                    /\ last.arg.name \in others) =>
                /\ last.result = "ok"
                /\ State.providers[p].models =
                       Append(last.pre.providers[p].models, StoredModelOf(last.arg))

C4_Witness ==
    /\ last.op = "addModel" /\ last.result = "ok"
    /\ \E p, q \in 1..Len(State.providers) :
          /\ p # q
          /\ State.providers[p].name = last.arg.provider.name
          /\ last.arg.name \in ModelIds(State.providers[p])
          /\ last.arg.name \in ModelIds(last.pre.providers[q])
          /\ last.arg.name \notin ModelIds(last.pre.providers[p])

\* C5: a successful deleteModel of model M sets the selection to null when M
\* is the current selection and leaves the selection as it was otherwise.
C5_DeleteModelSelection ==
    (last.op = "deleteModel" /\ last.result = "ok") =>
        IF last.arg.name = last.pre.selectedModelId
        THEN State.selectedModelId = Null
        ELSE State.selectedModelId = last.pre.selectedModelId

C5_Witness ==
    /\ last.op = "deleteModel" /\ last.result = "ok"
    /\ last.arg.name = last.pre.selectedModelId
    /\ State.selectedModelId = Null

\* C6: updateModel for an existing provider and a model name that provider
\* does not have sets the selection to that name and changes no provider and
\* no model list.
C6_UpdateMissingModelSelects ==
    (/\ last.op = "updateModel"
     /\ last.arg.provider # NoProvider
     /\ FindIn(last.pre.providers, last.arg.provider.name) # 0
     /\ last.arg.name \notin
           ModelIds(last.pre.providers[FindIn(last.pre.providers, last.arg.provider.name)])) =>
        /\ last.result = "ok"
        /\ State.selectedModelId = last.arg.name
        /\ State.providers = last.pre.providers

C6_Witness ==
    /\ last.op = "updateModel" /\ last.result = "ok"
    /\ last.pre.selectedModelId # last.arg.name
    /\ State.selectedModelId = last.arg.name
    /\ \A i \in 1..Len(State.providers) : last.arg.name \notin ModelIds(State.providers[i])

\* C7: updateModel for a model name the given provider has succeeds and
\* replaces that model's display name, leaving its id, its position and every
\* other model as they were.
C7_UpdateExistingModelRelabels ==
    (/\ last.op = "updateModel"
     /\ last.arg.provider # NoProvider
     /\ FindIn(last.pre.providers, last.arg.provider.name) # 0
     /\ last.arg.name \in
           ModelIds(last.pre.providers[FindIn(last.pre.providers, last.arg.provider.name)])) =>
        LET p == FindIn(last.pre.providers, last.arg.provider.name)
            index == FindModel(last.pre.providers[p], last.arg.name)
        IN  /\ last.result = "ok"
            /\ State = [last.pre EXCEPT
                           !.providers[p].models[index] = StoredModelOf(last.arg)]

\* C8: updateProvider on a name that exists succeeds, keeps the provider's
\* model list and takes type, apiKey, url and verified from the argument; on a
\* name that does not exist it fails with the not-found error.
C8_UpdateProviderReplacesFields ==
    (last.op = "updateProvider" /\ Truthy(last.arg.type)) =>
        LET p == FindIn(last.pre.providers, last.arg.name)
        IN  IF p = 0
            THEN last.result \in NotFoundError /\ State = last.pre
            ELSE /\ last.result = "ok"
                 /\ State = [last.pre EXCEPT
                        !.providers[p] = [last.arg EXCEPT
                                             !.models = last.pre.providers[p].models]]

\* C9: saveProviderKey on an unknown provider name fails with the not-found
\* error and changes nothing; on a known provider it sets apiKey to the key and
\* verified to false, and changes nothing else.
C9_SaveProviderKey ==
    last.op = "saveProviderKey" =>
        LET p == FindIn(last.pre.providers, last.arg.providerName)
        IN  IF p = 0
            THEN last.result \in NotFoundError /\ last.writes = 0 /\ State = last.pre
            ELSE /\ last.result = "ok"
                 /\ State = [last.pre EXCEPT !.providers[p].apiKey = last.arg.key,
                                             !.providers[p].verified = FALSE]

C9_Witness ==
    /\ last.op = "saveProviderKey" /\ last.result = "ok"
    /\ LET p == FindIn(last.pre.providers, last.arg.providerName)
       IN  /\ last.pre.providers[p].verified
           /\ last.pre.providers[p].apiKey # last.arg.key
           /\ ~State.providers[p].verified

\* C10: right after a registry operation that writes a provider's apiKey
\* (addProvider, updateProvider, saveProviderKey, the legacy migration), that
\* provider's verified flag is false.
C10_VerifiedFalseAfterKeyWrite ==
    /\ (last.op \in {"addProvider", "updateProvider"} /\ last.result = "ok") =>
           \A i \in Named(last.arg.name) : ~getProviders[i].verified
    /\ (last.op = "saveProviderKey" /\ last.result = "ok") =>
           \A i \in Named(last.arg.providerName) : ~getProviders[i].verified
    /\ (last.op = "loadSettings" /\ "geminiApiKey" \in last.arg.fields) =>
           \A i \in Named("Gemini") : ~getProviders[i].verified

(***************************************************************************)
(* Properties of loading and persisting.                                   *)
(***************************************************************************)
\* The state of a new registry (new process: pristine DEFAULT_PROVIDERS, the
\* constructor's settings) once its loadSettings has read `blob`.
Reload(blob) ==
    LET r == Loaded(DEFAULT_PROVIDERS, NewSettings, blob)
    IN  StateIn(r.d, r.s)

\* C11: for every registry state a mutator leaves behind (maxTokens and
\* temperature being numbers JSON can write), the blob saveData writes for it,
\* loaded into a new registry, gives back the same providers, models,
\* selection, custom prompt, maxTokens and temperature.
C11_RoundTrip ==
    (/\ last.op \in Mutators
     /\ settings.maxTokens # NaN
     /\ settings.temperature # NaN) =>
        Reload(saveData(defaults, settings)) = State

\* The last step was loadSettings reading a blob of the legacy format.
LegacyLoaded ==
    /\ last.op = "loadSettings"
    /\ last.arg.exists /\ last.arg.hasSettings
    /\ "geminiApiKey" \in last.arg.fields

\* C12: after a legacy blob is loaded, the registry has a Gemini-type provider,
\* every Gemini-type provider has the legacy key as apiKey and verified false,
\* and customPrompt, maxTokens, temperature and selectedModelId are the blob's
\* customPrompt, maxTokens, temperature and selectedModel.
C12_LegacyMigration ==
    LegacyLoaded =>
        /\ \E i \in 1..Len(getProviders) : getProviders[i].type = "gemini"
        /\ \A i \in 1..Len(getProviders) :
              getProviders[i].type = "gemini" =>
                  /\ getProviders[i].name = "Gemini"
                  /\ getProviders[i].apiKey = last.arg.geminiApiKey
                  /\ ~getProviders[i].verified
        /\ State.customPrompt = last.arg.customPrompt
        /\ State.maxTokens = last.arg.maxTokens
        /\ State.temperature = last.arg.temperature
        /\ State.selectedModelId = last.arg.selectedModel

C12_Witness ==
    /\ LegacyLoaded
    /\ \E i \in 1..Len(getProviders) :
          /\ getProviders[i].type = "gemini"
          /\ getProviders[i].apiKey = "X"
          /\ last.pre.providers[i].apiKey # "X"
    /\ State.selectedModelId # last.pre.selectedModelId

\* C13: loading a legacy blob makes exactly one write; the blob it writes no
\* longer has the legacy shape, and a load of that blob takes the
\* current-format path, writes nothing and gives the registry state the first
\* load gave.
C13_MigrationOnce ==
    LegacyLoaded =>
        LET written == saveData(defaults, settings)
            second == Loaded(DEFAULT_PROVIDERS, NewSettings, written)
        IN  /\ last.writes = 1
            /\ written.exists /\ written.hasSettings
            /\ "geminiApiKey" \notin written.fields
            /\ second.writes = 0
            /\ StateIn(second.d, second.s) = State

C13_Witness ==
    /\ LegacyLoaded
    /\ pending = <<>>
    /\ disk = saveData(defaults, settings)
    /\ disk # last.arg

(***************************************************************************)
(* ProvidersFactory.createProvider.  The adapter constructors are outside  *)
(* the registry; what is modelled is the arguments they are called with.   *)
(***************************************************************************)
\* Reading a property an object may lack: undefined when it is absent.
Prop(obj, f) == IF f \in DOMAIN obj THEN obj[f] ELSE Undefined
PropNum(obj, f) == IF f \in DOMAIN obj THEN obj[f] ELSE NullNum

ProviderTypes == {"openai", "anthropic", "gemini"}

createProvider(config) ==
    LET type == config.provider.type
        apiKey == config.provider.apiKey
        model == Prop(config, "id")
        maxTokens == PropNum(config.provider, "maxTokens")
        temperature == PropNum(config.provider, "temperature")
        adapter(class, url) ==
            [error |-> "", class |-> class, apiKey |-> apiKey, model |-> model,
             maxTokens |-> maxTokens, temperature |-> temperature, url |-> url]
    IN  CASE type = "anthropic" -> adapter("AnthropicProvider", Undefined)
          [] type = "openai" -> adapter("OpenAIProvider", config.provider.url)
          [] type = "gemini" -> adapter("GeminiProvider", Undefined)
          [] OTHER -> [adapter("none", Undefined) EXCEPT
                          !.error = "Unsupported provider type: " \o type]

\* C14: createProvider fails with the unsupported-provider error for a type
\* outside {openai, anthropic, gemini}; for each model of the registry whose
\* provider has a valid type it succeeds, and the adapter receives the
\* provider's apiKey, the model's identifier, the registry's maxTokens and
\* temperature and, for openai, the provider's url.
C14_FactoryForwards ==
    \A k \in 1..Len(getModels) :
        LET config == getModels[k]
            made == createProvider(config)
        IN  IF config.provider.type \notin ProviderTypes
            THEN made.error = "Unsupported provider type: " \o config.provider.type
            ELSE /\ made.error = ""
                 /\ made.apiKey = config.provider.apiKey
                 /\ made.model = config.name
                 /\ made.maxTokens = settings.maxTokens
                 /\ made.temperature = settings.temperature
                 /\ config.provider.type = "openai" => made.url = config.provider.url

(***************************************************************************)
(* Invariants of the registry and the resolution of the selection.         *)
(***************************************************************************)
\* C15: in every state reached from the default provider set by registry
\* operations, no two providers of the registry have the same name.
C15_ProviderNamesUnique ==
    LET ps == Providers
    IN  \A i, j \in 1..Len(ps) : i # j => ps[i].name # ps[j].name

C15_Witness ==
    /\ last.op = "addProvider"
    /\ last.arg.name = "Custom" /\ Truthy(last.arg.type)
    /\ last.result \in ValidationError
    /\ Len(Providers) = Len(DEFAULT_PROVIDERS) + 1

\* C16: in every state reached from the default provider set by registry
\* operations, the models of one provider have pairwise different ids, and
\* every stored model has a non-empty id and a non-empty display name.
C16_ModelsWellFormed ==
    LET ps == Providers
    IN  \A i \in 1..Len(ps) :
            LET ms == ps[i].models
            IN  /\ \A j, k \in 1..Len(ms) : j # k => ms[j].id # ms[k].id
                /\ \A j \in 1..Len(ms) : Truthy(ms[j].id) /\ Truthy(ms[j].name)

C16_Witness ==
    /\ last.op = "addModel"
    /\ last.result \in ValidationError
    /\ last.arg.name = "m1" /\ last.arg.provider.name = "Gemini"
    /\ \E i \in 1..Len(Providers) :
          Providers[i].name = "Gemini" /\ "m1" \in ModelIds(Providers[i])

\* The providers, by index, that own a model with the given id.
Owners(id) ==
    LET ps == Providers
    IN  {i \in 1..Len(ps) : id \in ModelIds(ps[i])}

\* C17: getSelectedModel is null when the selection is empty or no provider
\* has a model of that name; otherwise it is the model of that name of the
\* first provider, in list order, that has one, with that provider's current
\* name, type, apiKey, url and verified.
C17_SelectionResolvesFirstMatch ==
    LET sel == settings.selectedModelId
        owners == Owners(sel)
        got == getSelectedModel
    IN  IF ~Truthy(sel) \/ owners = {}
        THEN got = Null
        ELSE \E i \in owners :
                /\ \A q \in owners : i <= q
                /\ LET p == Providers[i]
                   IN  \E j \in 1..Len(p.models) :
                          /\ p.models[j].id = sel
                          /\ got = [name |-> sel,
                                    displayName |-> p.models[j].name,
                                    provider |-> [name |-> p.name,
                                                  type |-> p.type,
                                                  apiKey |-> p.apiKey,
                                                  url |-> p.url,
                                                  verified |-> p.verified]]

C17_Witness ==
    /\ Cardinality(Owners(settings.selectedModelId)) = 2
    /\ getSelectedModel.provider.name = "Gemini"

(***************************************************************************)
(* Failures: of the durable write, and of a call.                          *)
(***************************************************************************)
\* The one write of the last call is no longer in flight and never reached
\* the store: plugin.saveData rejected.
WriteFailed ==
    /\ last.op \in Mutators
    /\ last.writes = 1
    /\ pending = <<>>
    /\ ~disk.exists

\* C18: when the durable write of a mutator fails, the mutator's outcome
\* stays a normal return (no error comes out of it) and the registry keeps
\* the state the mutator left: reads return the mutated state.
C18_WriteFailureKeepsChange ==
    WriteFailed =>
        /\ last.result = "ok"
        /\ State = last.post
        /\ Len(getProviders) = Len(last.post.providers)
        /\ \A i \in 1..Len(getProviders) :
              /\ getProviders[i].name = last.post.providers[i].name
              /\ getProviders[i].apiKey = last.post.providers[i].apiKey
              /\ getProviders[i].verified = last.post.providers[i].verified
              /\ Len(getProviders[i].models) = Len(last.post.providers[i].models)

C18_Witness ==
    /\ WriteFailed
    /\ State # last.pre
    /\ State = last.post

\* C19: a mutator call that fails (validation, not-found, conflict or a
\* missing provider reference) leaves the registry state as it was and issues
\* no durable write; a call that succeeds issues exactly one durable write,
\* and what it writes is the state the call left.
C19_FailNoChangeSuccessOneWrite ==
    last.op \in Mutators =>
        IF last.result = "ok"
        THEN /\ last.writes = 1
             /\ last.blob = Serialize(defaults, settings)
        ELSE /\ last.result \in ValidationError \cup NotFoundError \cup ConflictError
                                \cup {"TypeError", "Provider is undefined in model"}
             /\ last.writes = 0
             /\ last.blob = NoBlob
             /\ State = last.pre

C19_Witness ==
    /\ last.op \in Mutators
    /\ last.result # "ok"
    /\ nops = 2
    /\ Len(pending) = 1
    /\ ~disk.exists
    /\ State # StateIn(DEFAULT_PROVIDERS, NewSettings)

(***************************************************************************)
(* Loading a blob of the current format.                                   *)
(***************************************************************************)
CurrentLoaded ==
    /\ last.op = "loadSettings"
    /\ last.arg.exists /\ last.arg.hasSettings
    /\ "geminiApiKey" \notin last.arg.fields

\* C20: after a current-format blob is loaded, each of providers,
\* selectedModelId, customPrompt, maxTokens and temperature has the blob's
\* value when the blob has the field (an empty list, an empty string, zero
\* and a null selection included) and the value it had before the load when
\* the blob lacks the field.
C20_PresentFieldWins ==
    CurrentLoaded =>
        LET loaded == last.arg
            Has(f) == f \in loaded.fields
        IN  /\ State.providers =
                  IF Has("providers") THEN loaded.providers ELSE last.pre.providers
            /\ State.selectedModelId =
                  IF Has("selectedModelId") THEN loaded.selectedModelId
                  ELSE last.pre.selectedModelId
            /\ State.customPrompt =
                  IF Has("customPrompt") THEN loaded.customPrompt
                  ELSE last.pre.customPrompt
            /\ State.maxTokens =
                  IF Has("maxTokens") THEN loaded.maxTokens ELSE last.pre.maxTokens
            /\ State.temperature =
                  IF Has("temperature") THEN loaded.temperature
                  ELSE last.pre.temperature

(***************************************************************************)
(* Deleting, selecting, and the flattened reads.                           *)
(***************************************************************************)
\* C21: deleteModel fails with the not-found error, leaving every model list
\* and the selection as they were, when no provider has the given provider
\* name or that provider has no model of the given name; when it succeeds the
\* provider's list is the old list without that one entry, the other entries
\* in their order, and every other provider is as it was.
C21_DeleteModelExactlyOne ==
    (last.op = "deleteModel" /\ last.arg.provider # NoProvider) =>
        LET p == FindIn(last.pre.providers, last.arg.provider.name)
            index == IF p = 0 THEN 0 ELSE FindModel(last.pre.providers[p], last.arg.name)
        IN  IF index = 0
            THEN /\ last.result \in NotFoundError
                 /\ State = last.pre
            ELSE /\ last.result = "ok"
                 /\ State.providers =
                        [last.pre.providers EXCEPT ![p].models = Splice(@, index)]

C21_Witness ==
    /\ last.op = "deleteModel" /\ last.result = "ok"
    /\ LET p == FindIn(last.pre.providers, last.arg.provider.name)
       IN  /\ FindModel(last.pre.providers[p], last.arg.name) = 1
           /\ Len(last.pre.providers[p].models) = 2
           /\ Len(State.providers[p].models) = 1

\* C22: deleteProvider fails with the not-found error, changing nothing, when
\* no provider has the given name; on a provider whose model list is empty it
\* succeeds and removes that one provider, leaving the other providers, their
\* order, their models, the selection and the generation profile as they were.
C22_DeleteProviderExactlyOne ==
    last.op = "deleteProvider" =>
        LET p == FindIn(last.pre.providers, last.arg.name)
        IN  IF p = 0
            THEN /\ last.result \in NotFoundError
                 /\ last.writes = 0
                 /\ State = last.pre
            ELSE last.pre.providers[p].models = <<>> =>
                    /\ last.result = "ok"
                    /\ State = [last.pre EXCEPT !.providers = Splice(@, p)]

C22_Witness ==
    /\ last.op = "deleteProvider" /\ last.result = "ok"
    /\ Len(State.providers) = Len(last.pre.providers) - 1
    /\ Len(State.providers) >= 1
    /\ FindIn(State.providers, last.arg.name) = 0

\* C23: setSelectedModel makes the given name the selection whether or not a
\* model has that name, leaves the providers, their models and the generation
\* profile as they were, and issues one durable write, of the new selection.
C23_SetSelectedModelUnchecked ==
    last.op = "setSelectedModel" =>
        /\ last.result = "ok"
        /\ State = [last.pre EXCEPT !.selectedModelId = last.arg]
        /\ last.writes = 1
        /\ last.blob.selectedModelId = last.arg

C23_Witness ==
    /\ last.op = "setSelectedModel" /\ last.result = "ok"
    /\ last.pre.selectedModelId # last.arg
    /\ State.selectedModelId = last.arg
    /\ Owners(last.arg) = {}

\* The blobs the registry has handed to the store and that are still known:
\* the writes in flight and the write of the last call.
Written ==
    {pending[k] : k \in 1..Len(pending)}
    \cup (IF last.writes = 1 THEN {last.blob} ELSE {})

\* C24: in every reachable state getModels() is the concatenation, in provider
\* order, of the model lists getProviders() returns; each returned model
\* carries the current name, type, apiKey, url and verified of the provider
\* that owns it; and a model written to the store has an id and a name and no
\* provider copy.
C24_ModelsDenormalized ==
    LET gp == getProviders
        ps == Providers
    IN  /\ getModels = Flatten([i \in 1..Len(gp) |-> gp[i].models])
        /\ Len(gp) = Len(ps)
        /\ \A i \in 1..Len(gp) :
              /\ Len(gp[i].models) = Len(ps[i].models)
              /\ \A j \in 1..Len(gp[i].models) :
                    /\ gp[i].models[j].name = ps[i].models[j].id
                    /\ gp[i].models[j].provider =
                          [name |-> ps[i].name, type |-> ps[i].type,
                           apiKey |-> ps[i].apiKey, url |-> ps[i].url,
                           verified |-> ps[i].verified]
        /\ \A b \in Written :
              \A i \in 1..Len(b.providers) :
                  \A j \in 1..Len(b.providers[i].models) :
                      DOMAIN b.providers[i].models[j] = {"id", "name"}

C24_Witness ==
    /\ last.op = "saveProviderKey" /\ last.result = "ok"
    /\ pending # <<>>
    /\ \E k \in 1..Len(getModels) :
          /\ getModels[k].provider.name = last.arg.providerName
          /\ getModels[k].provider.apiKey = last.arg.key
          /\ ~getModels[k].provider.verified

(***************************************************************************)
(* The Presentation Layer's delete handler.                                *)
(***************************************************************************)
\* C25: when handleModelDelete(model) is invoked for a model its provider
\* has, the registry call succeeds and removes that model and onModelDeleted
\* is then invoked, once; and onModelDeleted is not invoked when the registry
\* call failed.
C25_HandlerDeletesThenNotifies ==
    last.op = "handleModelDelete" =>
        LET p == FindIn(last.pre.providers, last.arg.provider.name)
            index == IF p = 0 THEN 0 ELSE FindModel(last.pre.providers[p], last.arg.name)
        IN  /\ index # 0 =>
                /\ last.result = "ok"
                /\ State.providers =
                       [last.pre.providers EXCEPT ![p].models = Splice(@, index)]
                /\ last.callbacks = << "onModelDeleted" >>
            /\ last.result # "ok" => last.callbacks = <<>>

(***************************************************************************)
(* Calls that overlap the initial load and each other's writes.            *)
(***************************************************************************)
\* The registry state the constructor leaves.
Constructed == StateIn(DEFAULT_PROVIDERS, NewSettings)

\* The top-level fields whose value, when the load resumed, was not the
\* constructor's: the fields the calls made before the load had changed.
MutatedBeforeLoad ==
    {f \in {"providers", "selectedModelId", "customPrompt", "maxTokens", "temperature"} :
        last.pre[f] # Constructed[f]}

\* C26: a field that a mutator changed after construction and before the
\* initial load completed still has the mutated value once the load has
\* completed, and a blob the load writes carries that value too.
C26_MutationBeforeLoadKept ==
    last.op = "loadSettings" =>
        \A f \in MutatedBeforeLoad :
            /\ State[f] = last.pre[f]
            /\ last.writes = 1 => Reload(last.blob)[f] = last.pre[f]

\* C27: in a store where no write fails, once no write is in flight after
\* two or more calls the stored blob is the serialization of the settings in
\* memory, whatever order the writes completed in.
C27_StoreHoldsFinalState ==
    (/\ phase = "ready"
     /\ nops >= 2
     /\ last.op \in Mutators /\ last.writes = 1
     /\ pending = <<>>) =>
        disk = saveData(defaults, settings)

(***************************************************************************)
(* The selection across providers that share a model name.                 *)
(***************************************************************************)
\* C28: when the selection resolves to a model of provider P and deleteModel
\* removes the model of the same name from another provider Q, the selection
\* is kept and getSelectedModel() still resolves to P's model.
C28_DeleteElsewhereKeepsSelection ==
    (last.op = "deleteModel" /\ last.result = "ok") =>
        LET sel == last.pre.selectedModelId
            owners == {i \in 1..Len(last.pre.providers) :
                          sel \in ModelIds(last.pre.providers[i])}
        IN  (/\ Truthy(sel)
             /\ owners # {}
             /\ last.arg.name = sel
             /\ last.pre.providers[Min(owners)].name # last.arg.provider.name) =>
                /\ State.selectedModelId = sel
                /\ getSelectedModel.provider.name = last.pre.providers[Min(owners)].name

(***************************************************************************)
(* The default provider definitions and loads that find nothing.           *)
(***************************************************************************)
\* C29: the providers a legacy migration leaves are the default providers as
\* defaults.ts defines them with the Gemini provider's apiKey set to the
\* legacy key, whatever calls were made before the load completed; and the
\* objects of DEFAULT_PROVIDERS always hold what defaults.ts defines.
C29_MigrationFreshDefaults ==
    /\ LegacyLoaded =>
          State.providers =
              [DEFAULT_PROVIDERS EXCEPT ![1].apiKey = last.arg.geminiApiKey,
                                        ![1].verified = FALSE]
    /\ defaults = DEFAULT_PROVIDERS

\* C30: when the store returns nothing, or an object without a settings
\* property, the load issues no write and leaves the registry as it found it;
\* with no call made before it, that is the constructor's state: the default
\* providers, selection 'gemini-1.5-pro', the default prompt, maxTokens 3000
\* and temperature 1.
C30_AbsentBlobKeepsDefaults ==
    (last.op = "loadSettings" /\ (~last.arg.exists \/ ~last.arg.hasSettings)) =>
        /\ last.writes = 0
        /\ State = last.pre
        /\ nops = 0 =>
              /\ State.providers = DEFAULT_PROVIDERS
              /\ State.selectedModelId = "gemini-1.5-pro"
              /\ State.customPrompt = DEFAULT_PROMPT
              /\ State.maxTokens = 3000
              /\ State.temperature = 1
              /\ pending = <<>>

C30_Witness ==
    /\ last.op = "loadSettings"
    /\ last.arg.exists /\ ~last.arg.hasSettings
    /\ nops = 0
    /\ phase = "ready"
    /\ State = Constructed
====
